---- MODULE Spec2Model ----
(***************************************************************************)
(* A model of jsoninja (src/jsoninja/__init__.py): the Jsoninja engine,    *)
(* its constructor and its replace() walk over a template made of dicts,   *)
(* lists and scalars.                                                      *)
(*                                                                         *)
(* Python objects live in a heap: a dict or a list is a heap cell named by *)
(* its address, so identity (aliasing) and in-place mutation are visible.  *)
(* A string is a sequence of pieces: a literal character without braces,   *)
(* or a placeholder span ("{{a}}" or "{{ a }}").  With such an alphabet    *)
(* the matches re.finditer finds are exactly the span pieces, and an       *)
(* occurrence of a span as a substring is exactly an equal piece.          *)
(***************************************************************************)
EXTENDS Integers, Sequences, FiniteSets, TLC

----------------------------------------------------------------------------
(* Bounds of the model *)

\* longest template string, in pieces
MaxLen == 2
\* most entries of a root container
MaxItems == 2

----------------------------------------------------------------------------
(* Strings *)

Lit(c) == [k |-> "lit", x |-> c, sp |-> 0]
\* the text "{{i}}" (sp = 0) or "{{ i }}" (sp = 1): both capture identifier i
Span(i, sp) == [k |-> "span", x |-> i, sp |-> sp]
IsSpan(p) == p.k = "span"

----------------------------------------------------------------------------
(* Python values.  Every value is a record of the same fields so that any  *)
(* two of them can be compared.                                            *)

StrV(s) == [t |-> "str", s |-> s, n |-> 0]
IntV(n) == [t |-> "int", s |-> <<>>, n |-> n]
\* the float n + 0.5
FloatV(n) == [t |-> "float", s |-> <<>>, n |-> n]
BoolV(b) == [t |-> "bool", s |-> <<>>, n |-> IF b THEN 1 ELSE 0]
NoneV == [t |-> "None", s |-> <<>>, n |-> 0]
\* a reference to the dict or list at heap address a
RefV(a) == [t |-> "ref", s |-> <<>>, n |-> a]
\* a zero-argument callable
FnV(f) == [t |-> "fn", s |-> <<Lit(f)>>, n |-> 0]
FnName(v) == v.s[1].x
\* an instance of _NoReplacement
NoReplacement == [t |-> "_NoReplacement", s |-> <<>>, n |-> 0]

\* a heap cell: items is the ordered content.  A list item has k = NoneV.
\* src is a ghost: the position, in the container the caller passed, of the
\* entry whose value this item holds.
Item(k, v, src) == [k |-> k, v |-> v, src |-> src]
Cell(t, items) == [t |-> t, items |-> items]

IsList(h, v) == v.t = "ref" /\ h[v.n].t = "list"
IsDict(h, v) == v.t = "ref" /\ h[v.n].t = "dict"

\* Python's == on dict keys: True == 1 and False == 0
KeyEq(k1, k2) ==
    IF k1.t \in {"int", "bool"} /\ k2.t \in {"int", "bool"} THEN k1.n = k2.n
    ELSE k1 = k2

\* the index of key k in a dict's items, 0 when absent
KeyIndex(items, k) ==
    IF \E i \in 1..Len(items) : KeyEq(items[i].k, k)
    THEN CHOOSE i \in 1..Len(items) : KeyEq(items[i].k, k)
    ELSE 0

\* d[k] = v : an existing key keeps its place (and its key object)
DictSet(items, k, v, src) ==
    LET i == KeyIndex(items, k) IN
    IF i = 0 THEN Append(items, Item(k, v, src))
    ELSE [items EXCEPT ![i] = Item(items[i].k, v, src)]

\* d.pop(k), for a key that is present: the items left
DictPop(items, k) ==
    LET i == KeyIndex(items, k) IN
    SubSeq(items, 1, i - 1) \o SubSeq(items, i + 1, Len(items))

----------------------------------------------------------------------------
(* Exceptions.  name is the identifier the message quotes ("" when the    *)
(* message quotes none); at tells the two TypeErrors of the walk apart.    *)

NoExc == [type |-> "", name |-> "", at |-> ""]
Exc(type, name, at) == [type |-> type, name |-> name, at |-> at]
Raised(x) == x.type # ""

----------------------------------------------------------------------------
(* The compiled pattern an engine holds: all that the walk depends on is   *)
(* how many capture groups it has.                                         *)

Regex(groups) == [groups |-> groups]
\* re.compile(r"\{\{\ ?([a-zA-Z0-9_]+)\ ?\}\}")
DefaultRegex == Regex(1)

\* the text the pattern is run over, str(variable): the str() of a number,
\* a boolean or None holds no brace
StrOf(variable) == IF variable.t = "str" THEN variable.s ELSE <<>>

\* str.replace(old, new) on pieces: every piece equal to old becomes new
RECURSIVE StrReplace(_, _, _)
StrReplace(w, old, new) ==
    IF w = <<>> THEN <<>>
    ELSE (IF Head(w) = old THEN new ELSE <<Head(w)>>) \o StrReplace(Tail(w), old, new)

\* a variant of the loop that skips an unbound identifier whatever
\* raise_on_missing says
RECURSIVE GetReplacementLoop_NeverRaise(_, _, _, _, _, _)
GetReplacementLoop_NeverRaise(regex, variable, replacements, raise_on_missing, i, replacement) ==
    LET text == StrOf(variable) IN
    IF i > Len(text) THEN [exc |-> NoExc, val |-> replacement]
    ELSE LET match == text[i] IN
      IF ~IsSpan(match) \/ match.x \notin DOMAIN replacements
      THEN GetReplacementLoop_NeverRaise(regex, variable, replacements, raise_on_missing,
                                         i + 1, replacement)
      ELSE IF StrV(<<match>>) = variable
      THEN [exc |-> NoExc, val |-> replacements[match.x]]
      ELSE LET working == IF replacement = NoReplacement THEN variable ELSE replacement IN
           IF replacements[match.x].t # "str"
           THEN [exc |-> Exc("TypeError", "", "get_replacement"), val |-> NoReplacement]
           ELSE GetReplacementLoop_NeverRaise(regex, variable, replacements, raise_on_missing,
                    i + 1, StrV(StrReplace(working.s, match, replacements[match.x].s)))

\* a variant of the loop that starts each replacement from the template
\* string again, losing the earlier ones
RECURSIVE GetReplacementLoop_Restart(_, _, _, _, _, _)
GetReplacementLoop_Restart(regex, variable, replacements, raise_on_missing, i, replacement) ==
    LET text == StrOf(variable) IN
    IF i > Len(text) THEN [exc |-> NoExc, val |-> replacement]
    ELSE LET match == text[i] IN
      IF ~IsSpan(match)
      THEN GetReplacementLoop_Restart(regex, variable, replacements, raise_on_missing,
                                      i + 1, replacement)
      ELSE IF match.x \notin DOMAIN replacements
      THEN IF raise_on_missing = FALSE
           THEN GetReplacementLoop_Restart(regex, variable, replacements, raise_on_missing,
                                           i + 1, replacement)
           ELSE [exc |-> Exc("KeyError", match.x, "get_replacement"), val |-> NoReplacement]
      ELSE IF StrV(<<match>>) = variable
      THEN [exc |-> NoExc, val |-> replacements[match.x]]
      ELSE IF replacements[match.x].t # "str"
           THEN [exc |-> Exc("TypeError", "", "get_replacement"), val |-> NoReplacement]
           ELSE GetReplacementLoop_Restart(regex, variable, replacements, raise_on_missing,
                    i + 1, StrV(StrReplace(variable.s, match, replacements[match.x].s)))

\* the for loop of __get_replacement from match number i on; the result is
\* [exc, val], val being what the method returns
RECURSIVE GetReplacementLoop(_, _, _, _, _, _)
GetReplacementLoop(regex, variable, replacements, raise_on_missing, i, replacement) ==
    LET text == StrOf(variable) IN
    IF i > Len(text) THEN [exc |-> NoExc, val |-> replacement]
    ELSE LET match == text[i] IN
      IF ~IsSpan(match)
      THEN GetReplacementLoop(regex, variable, replacements, raise_on_missing, i + 1, replacement)
      ELSE IF regex.groups = 0
      THEN [exc |-> Exc("IndexError", "", "get_replacement"), val |-> NoReplacement]
      ELSE IF match.x \notin DOMAIN replacements
      THEN IF raise_on_missing = FALSE
           THEN GetReplacementLoop(regex, variable, replacements, raise_on_missing, i + 1, replacement)
           ELSE [exc |-> Exc("KeyError", match.x, "get_replacement"), val |-> NoReplacement]
      ELSE IF StrV(<<match>>) = variable
      THEN [exc |-> NoExc, val |-> replacements[match.x]]
      ELSE LET working == IF replacement = NoReplacement THEN variable ELSE replacement IN
           IF replacements[match.x].t # "str"
           THEN [exc |-> Exc("TypeError", "", "get_replacement"), val |-> NoReplacement]
           ELSE GetReplacementLoop(regex, variable, replacements, raise_on_missing, i + 1,
                    StrV(StrReplace(working.s, match, replacements[match.x].s)))

GetReplacement(regex, variable, replacements, raise_on_missing) ==
    GetReplacementLoop(regex, variable, replacements, raise_on_missing, 1, NoReplacement)

----------------------------------------------------------------------------
(* The callables of the replacement mappings.  m is the state of a call:   *)
(* the heap, the log of invocations and the exception in flight.           *)

\* what the n-th invocation (n = 0, 1, ...) of callable f returns
FnResult(f, n) ==
    IF f = "counter" THEN IntV(100 + n)
    ELSE IF f = "none" THEN NoneV
    ELSE StrV(<<Lit("h")>>)

Count(calls, f) == Cardinality({i \in 1..Len(calls) : calls[i] = f})

\* a variant of __apply_replacement without its callable branch: a callable
\* is stored as it is
ApplyReplacement_NoCall(m, regex, replacements, variable, raise_on_missing) ==
    LET got == GetReplacement(regex, variable, replacements, raise_on_missing) IN
    IF Raised(got.exc)
    THEN [m |-> [m EXCEPT !.exc = got.exc], store |-> FALSE, val |-> NoReplacement]
    ELSE IF got.val = NoReplacement
    THEN [m |-> m, store |-> FALSE, val |-> NoReplacement]
    ELSE [m |-> m, store |-> TRUE, val |-> got.val]

\* a variant of __apply_replacement that invokes a callable once to test it
\* and once more for its value
ApplyReplacement_CallTwice(m, regex, replacements, variable, raise_on_missing) ==
    LET got == GetReplacement(regex, variable, replacements, raise_on_missing) IN
    IF Raised(got.exc)
    THEN [m |-> [m EXCEPT !.exc = got.exc], store |-> FALSE, val |-> NoReplacement]
    ELSE IF got.val = NoReplacement
    THEN [m |-> m, store |-> FALSE, val |-> NoReplacement]
    ELSE IF got.val.t = "fn"
    THEN [m |-> [m EXCEPT !.calls = Append(Append(m.calls, FnName(got.val)), FnName(got.val))],
          store |-> TRUE,
          val |-> FnResult(FnName(got.val), Count(m.calls, FnName(got.val)) + 1)]
    ELSE [m |-> m, store |-> TRUE, val |-> got.val]

\* __apply_replacement up to its store: [m, store, val], where store tells
\* whether structure[key] = val is executed
ApplyReplacement(m, regex, replacements, variable, raise_on_missing) ==
    LET got == GetReplacement(regex, variable, replacements, raise_on_missing) IN
    IF Raised(got.exc)
    THEN [m |-> [m EXCEPT !.exc = got.exc], store |-> FALSE, val |-> NoReplacement]
    ELSE IF got.val = NoReplacement
    THEN [m |-> m, store |-> FALSE, val |-> NoReplacement]
    ELSE IF got.val.t = "fn"
    THEN [m |-> [m EXCEPT !.calls = Append(m.calls, FnName(got.val))],
          store |-> TRUE, val |-> FnResult(FnName(got.val), Count(m.calls, FnName(got.val)))]
    ELSE [m |-> m, store |-> TRUE, val |-> got.val]

\* structure[key] = val on the dict or the list at address a
Store(h, a, key, val) ==
    IF h[a].t = "list"
    THEN [h EXCEPT ![a].items[key.n + 1].v = val]
    ELSE LET i == KeyIndex(h[a].items, key) IN
         [h EXCEPT ![a].items = DictSet(h[a].items, key, val,
                                        IF i = 0 THEN 0 ELSE h[a].items[i].src)]

----------------------------------------------------------------------------
(* The walk.  Every operator takes the state m of the call and gives the   *)
(* state after it; once an exception is in flight nothing more is done.    *)

RECURSIVE ScanListLoop(_, _, _, _, _, _)
RECURSIVE ScanDictLoop(_, _, _, _, _, _, _)
RECURSIVE ScanNode(_, _, _, _, _, _, _)
RECURSIVE ReplaceKeysLoop(_, _, _, _, _)
RECURSIVE ReplaceKeysLoop_NoCheck(_, _, _, _, _)

\* a variant of __replace_keys without the type check
ReplaceKeysLoop_NoCheck(m, regex, a, key_replacements, j) ==
    IF j > Len(key_replacements) THEN m
    ELSE LET variable == key_replacements[j].k
             value == key_replacements[j].v
             items == m.heap[a].items
             popped == items[KeyIndex(items, variable)]
         IN
         ReplaceKeysLoop_NoCheck(
             [m EXCEPT !.heap[a].items =
                 DictSet(DictPop(items, variable), value, popped.v, popped.src)],
             regex, a, key_replacements, j + 1)

\* __replace_keys from entry j of the key replacements on
ReplaceKeysLoop(m, regex, a, key_replacements, j) ==
    IF j > Len(key_replacements) THEN m
    ELSE LET variable == key_replacements[j].k
             value == key_replacements[j].v
             text == StrOf(variable)
             items == m.heap[a].items
             popped == items[KeyIndex(items, variable)]
         IN
         IF value.t \notin {"str", "int", "float", "bool"}
         THEN [m EXCEPT !.exc = Exc("TypeError",
                   IF text # <<>> /\ IsSpan(text[1]) /\ regex.groups > 0
                   THEN text[1].x ELSE "", "replace_keys")]
         ELSE ReplaceKeysLoop(
                  [m EXCEPT !.heap[a].items =
                      DictSet(DictPop(items, variable), value, popped.v, popped.src)],
                  regex, a, key_replacements, j + 1)

ReplaceKeys(m, regex, a, key_replacements) ==
    ReplaceKeysLoop(m, regex, a, key_replacements, 1)

\* __scan_list on the list at address a, from index i on
ScanListLoop(m, regex, a, replacements, raise_on_missing, i) ==
    IF Raised(m.exc) \/ i > Len(m.heap[a].items) THEN m
    ELSE ScanListLoop(
             ScanNode(m, regex, a, replacements, IntV(i - 1), m.heap[a].items[i].v,
                      raise_on_missing),
             regex, a, replacements, raise_on_missing, i + 1)

ScanList(m, regex, a, replacements, raise_on_missing) ==
    ScanListLoop(m, regex, a, replacements, raise_on_missing, 1)

\* __scan_dict on the dict at address a, from entry i on: the key is
\* resolved into key_replacements, then the value is scanned; the keys are
\* replaced after the last entry
ScanDictLoop(m, regex, a, replacements, raise_on_missing, i, key_replacements) ==
    IF Raised(m.exc) THEN m
    ELSE IF i > Len(m.heap[a].items) THEN ReplaceKeys(m, regex, a, key_replacements)
    ELSE LET key == m.heap[a].items[i].k
             value == m.heap[a].items[i].v
             applied == ApplyReplacement(m, regex, replacements, key, raise_on_missing)
         IN
         IF Raised(applied.m.exc) THEN applied.m
         ELSE ScanDictLoop(
                  ScanNode(applied.m, regex, a, replacements, key, value, raise_on_missing),
                  regex, a, replacements, raise_on_missing, i + 1,
                  IF applied.store
                  THEN DictSet(key_replacements, key, applied.val, 0)
                  ELSE key_replacements)

ScanDict(m, regex, a, replacements, raise_on_missing) ==
    ScanDictLoop(m, regex, a, replacements, raise_on_missing, 1, <<>>)

\* __scan_node: template is the address of the container, key the key or
\* the index of value in it
ScanNode(m, regex, template, replacements, key, value, raise_on_missing) ==
    IF IsList(m.heap, value)
    THEN ScanList(m, regex, value.n, replacements, raise_on_missing)
    ELSE IF IsDict(m.heap, value)
    THEN LET scanned == ScanDict(m, regex, value.n, replacements, raise_on_missing) IN
         IF Raised(scanned.exc) THEN scanned
         ELSE [scanned EXCEPT !.heap = Store(scanned.heap, template, key, value)]
    ELSE LET applied == ApplyReplacement(m, regex, replacements, value, raise_on_missing) IN
         IF applied.store
         THEN [applied.m EXCEPT !.heap = Store(applied.m.heap, template, key, applied.val)]
         ELSE applied.m

\* __scan_template
ScanTemplate(m, regex, template, replacements, raise_on_missing) ==
    IF IsList(m.heap, template)
    THEN ScanList(m, regex, template.n, replacements, raise_on_missing)
    ELSE ScanDict(m, regex, template.n, replacements, raise_on_missing)

----------------------------------------------------------------------------
(* copy.deepcopy of a tree: a dict or a list is copied into a fresh cell,  *)
(* its items one by one; any other value is returned as it is.  The result *)
(* is [heap, val].                                                         *)

RECURSIVE DeepCopy(_, _)
RECURSIVE DeepCopyItems(_, _, _, _)

\* a variant of the copy that returns the value it is given
DeepCopy_Alias(h, v) == [heap |-> h, val |-> v]

\* copies the items of cell a into cell b from item i on
DeepCopyItems(h, a, b, i) ==
    IF i > Len(h[a].items) THEN h
    ELSE LET c == DeepCopy(h, h[a].items[i].v) IN
         DeepCopyItems(
             [c.heap EXCEPT ![b].items =
                 Append(@, Item(h[a].items[i].k, c.val, h[a].items[i].src))],
             a, b, i + 1)

DeepCopy(h, v) ==
    IF v.t # "ref" THEN [heap |-> h, val |-> v]
    ELSE LET b == Len(h) + 1 IN
         [heap |-> DeepCopyItems(Append(h, Cell(h[v.n].t, <<>>)), v.n, b, 1),
          val |-> RefV(b)]

\* a variant of the test that no template passes for empty
IsEmpty_Never(h, v) == FALSE

\* not template, for a dict or a list
IsEmpty(h, v) == h[v.n].items = <<>>

----------------------------------------------------------------------------
(* The caller's side: templates and replacement values written as          *)
(* literals, and their construction in the heap.                           *)

\* a list literal and a dict literal (pairs is a sequence of <<key, value>>)
ListT(vals) ==
    [t |-> "list", s |-> [i \in 1..Len(vals) |-> [k |-> NoneV, v |-> vals[i]]], n |-> 0]
DictT(pairs) ==
    [t |-> "dict", s |-> [i \in 1..Len(pairs) |-> [k |-> pairs[i][1], v |-> pairs[i][2]]],
     n |-> 0]
IsContainerT(x) == x.t \in {"list", "dict"}

RECURSIVE Load(_, _)
RECURSIVE LoadItems(_, _, _, _)

LoadItems(h, items, b, i) ==
    IF i > Len(items) THEN h
    ELSE LET c == Load(h, items[i].v) IN
         LoadItems([c.heap EXCEPT ![b].items = Append(@, Item(items[i].k, c.val, i))],
                   items, b, i + 1)

\* evaluating the literal x: [heap, val]
Load(h, x) ==
    IF ~IsContainerT(x) THEN [heap |-> h, val |-> x]
    ELSE LET b == Len(h) + 1 IN
         [heap |-> LoadItems(Append(h, Cell(x.t, <<>>)), x.s, b, 1), val |-> RefV(b)]

\* the literal a heap value denotes
RECURSIVE Deref(_, _)
Deref(h, v) ==
    IF v.t # "ref" THEN v
    ELSE [t |-> h[v.n].t,
          s |-> [i \in 1..Len(h[v.n].items) |->
                    [k |-> h[v.n].items[i].k, v |-> Deref(h, h[v.n].items[i].v)]],
          n |-> 0]

\* the addresses of the dicts and lists reachable from a heap value
RECURSIVE Reach(_, _)
Reach(h, v) ==
    IF v.t # "ref" THEN {}
    ELSE {v.n} \cup UNION {Reach(h, h[v.n].items[i].v) : i \in 1..Len(h[v.n].items)}

----------------------------------------------------------------------------
(* The inputs the model draws from *)

P == Lit("p")
A == Span("a", 0)
A1 == Span("a", 1)
B == Span("b", 0)
Pieces == {P, A, A1, B}

RECURSIVE StrsOfLen(_)
StrsOfLen(n) ==
    IF n = 0 THEN {<<>>}
    ELSE {Append(s, p) : s \in StrsOfLen(n - 1), p \in Pieces}
\* every string of 1..MaxLen pieces
Strings == UNION {StrsOfLen(n) : n \in 1..MaxLen}

\* an identifier the mapping does not bind
Absent == [t |-> "absent", s |-> <<>>, n |-> 0]

ValuesA ==
    {StrV(<<Lit("v")>>), StrV(<<B>>), IntV(1), NoneV,
     ListT(<<StrV(<<Lit("x")>>)>>), DictT(<< <<StrV(<<A>>), StrV(<<P>>)>> >>),
     FnV("counter"), FnV("none")}
ValuesB == {StrV(<<Lit("z")>>), BoolV(TRUE), FloatV(1), FnV("h")}

\* the mapping that binds a to va and b to vb, Absent leaving one unbound
Mapping(va, vb) ==
    [i \in {x \in {"a", "b"} : (IF x = "a" THEN va ELSE vb) # Absent} |->
        IF i = "a" THEN va ELSE vb]
Mappings == {Mapping(va, vb) : va \in ValuesA \cup {Absent}, vb \in ValuesB \cup {Absent}}

\* templates of one entry, over every string: a list element, a dict value
\* and a dict key
LeafTemplates ==
    UNION {{ListT(<<StrV(s)>>),
            DictT(<< <<StrV(<<P>>), StrV(s)>> >>),
            DictT(<< <<StrV(s), IntV(7)>> >>)} : s \in Strings}

\* templates of 0..MaxItems entries over a few values and keys
NodeValues ==
    {StrV(<<A>>), ListT(<<StrV(<<B>>)>>), DictT(<< <<StrV(<<A>>), StrV(<<P>>)>> >>)}
NodeKeys == {StrV(<<P>>), StrV(<<A>>), StrV(<<B>>)}

RECURSIVE ValSeqs(_)
ValSeqs(n) ==
    IF n = 0 THEN {<<>>}
    ELSE {Append(s, v) : s \in ValSeqs(n - 1), v \in NodeValues}
RECURSIVE PairSeqs(_)
PairSeqs(n) ==
    IF n = 0 THEN {<<>>}
    ELSE {Append(s, <<k, v>>) :
            s \in PairSeqs(n - 1), k \in NodeKeys, v \in NodeValues}
DistinctKeys(pairs) ==
    \A i, j \in 1..Len(pairs) : i # j => pairs[i][1] # pairs[j][1]

NodeTemplates ==
    UNION {{ListT(vs) : vs \in ValSeqs(n)} \cup
           {DictT(ps) : ps \in {q \in PairSeqs(n) : DistinctKeys(q)}} : n \in 0..MaxItems}

\* templates whose one entry is an empty list or an empty dict
HollowTemplates ==
    {ListT(<<ListT(<<>>)>>), ListT(<<DictT(<<>>)>>),
     DictT(<< <<StrV(<<P>>), ListT(<<>>)>> >>), DictT(<< <<StrV(<<P>>), DictT(<<>>)>> >>)}

Templates == LeafTemplates \cup NodeTemplates \cup HollowTemplates

\* what a caller may pass as variable_pattern: None, a str (valid tells
\* whether re.compile accepts it), a compiled Pattern, or anything else
PatternArg(kind, valid, groups) == [kind |-> kind, valid |-> valid, groups |-> groups]
Groups == {0, 1, 2}
PatternArgs ==
    {PatternArg("None", TRUE, 0), PatternArg("other", TRUE, 0), PatternArg("str", FALSE, 0)}
    \cup {PatternArg(k, TRUE, g) : k \in {"str", "Pattern"}, g \in Groups}

----------------------------------------------------------------------------
(* The state *)

VARIABLES
    pc,                \* "start", "ready", "construct_raised", "returned", "raised"
    variable_regex,    \* Jsoninja.__variable_regex
    heap,              \* the dicts and lists, by address
    heap0,             \* the heap when replace was called
    template,          \* the arguments of the call of replace
    replacements,
    raise_on_missing,
    result,            \* what replace returned
    exc,               \* the exception the constructor or replace raised
    calls              \* the callables invoked, in order

vars == <<pc, variable_regex, heap, heap0, template, replacements, raise_on_missing,
          result, exc, calls>>

NoRegex == Regex(-1)

Init ==
    /\ pc = "start"
    /\ variable_regex = NoRegex
    /\ heap = <<>>
    /\ heap0 = <<>>
    /\ template = NoneV
    /\ replacements = <<>>
    /\ raise_on_missing = TRUE
    /\ result = NoneV
    /\ exc = NoExc
    /\ calls = <<>>

\* Jsoninja(variable_pattern = p)
Construct(p) ==
    /\ pc = "start"
    /\ IF p.kind = "str"
       THEN IF p.valid
            THEN pc' = "ready" /\ variable_regex' = Regex(p.groups) /\ exc' = NoExc
            ELSE pc' = "construct_raised" /\ variable_regex' = NoRegex
                 /\ exc' = Exc("re.error", "", "init")
       ELSE IF p.kind = "Pattern"
       THEN pc' = "ready" /\ variable_regex' = Regex(p.groups) /\ exc' = NoExc
       ELSE IF p.kind = "None"
       THEN pc' = "ready" /\ variable_regex' = DefaultRegex /\ exc' = NoExc
       ELSE pc' = "construct_raised" /\ variable_regex' = NoRegex
            /\ exc' = Exc("TypeError", "", "init")
    /\ UNCHANGED <<heap, heap0, template, replacements, raise_on_missing, result, calls>>

\* the caller's arguments in the heap: the template, then the mapping's values
LoadArgs(t, r) ==
    LET lt == Load(<<>>, t)
        la == IF "a" \in DOMAIN r THEN Load(lt.heap, r["a"])
              ELSE [heap |-> lt.heap, val |-> Absent]
        lb == IF "b" \in DOMAIN r THEN Load(la.heap, r["b"])
              ELSE [heap |-> la.heap, val |-> Absent]
    IN [heap |-> lb.heap, template |-> lt.val, replacements |-> Mapping(la.val, lb.val)]

\* Jsoninja.replace(template, replacements, raise_on_missing = rom)
Replace(t, r, rom) ==
    /\ pc = "ready"
    /\ LET args == LoadArgs(t, r) IN
       /\ heap0' = args.heap
       /\ template' = args.template
       /\ replacements' = args.replacements
       /\ raise_on_missing' = rom
       /\ IF IsEmpty(args.heap, args.template)
          THEN /\ pc' = "raised"
               /\ exc' = Exc("ValueError", "", "replace")
               /\ heap' = args.heap
               /\ result' = NoneV
               /\ calls' = <<>>
          ELSE LET copy == DeepCopy(args.heap, args.template)
                   m == ScanTemplate([heap |-> copy.heap, calls |-> <<>>, exc |-> NoExc],
                                     variable_regex, copy.val, args.replacements, rom)
               IN /\ heap' = m.heap
                  /\ calls' = m.calls
                  /\ exc' = m.exc
                  /\ pc' = IF Raised(m.exc) THEN "raised" ELSE "returned"
                  /\ result' = IF Raised(m.exc) THEN NoneV ELSE copy.val
    /\ UNCHANGED variable_regex

\* _default_instance = Jsoninja()
ConstructDefault == Construct(PatternArg("None", TRUE, 0))

\* a call of replace on the engine
ReplaceCall ==
    /\ pc = "ready"
    /\ \E t \in Templates, r \in Mappings, rom \in BOOLEAN : Replace(t, r, rom)

\* the module's replace(): the default engine, any template
Next == ConstructDefault \/ ReplaceCall

Spec == Init /\ [][Next]_vars

\* an engine built with any variable_pattern, called on a one-entry template
ConstructAny == \E p \in PatternArgs : Construct(p)

ReplaceLeaf ==
    /\ pc = "ready"
    /\ \E t \in LeafTemplates, r \in Mappings, rom \in BOOLEAN : Replace(t, r, rom)

NextPattern == ConstructAny \/ ReplaceLeaf

SpecPattern == Init /\ [][NextPattern]_vars

----------------------------------------------------------------------------
(* Positions.  The template's cells are the first of heap0 and deepcopy    *)
(* allocates in the same order, so the copy of cell c is cell CopyOf(c).   *)
(* The entry of the result that holds what was entry i of template cell c  *)
(* is the item of CopyOf(c) whose src is i.                                *)

Done == pc \in {"returned", "raised"}
TemplateCells == Reach(heap0, template)
CopyOf(c) == Len(heap0) + c
InResult(c) == CopyOf(c) \in Reach(heap, result)
Entries(c) == 1..Len(heap0[c].items)
OutItems(c, i) ==
    {j \in 1..Len(heap[CopyOf(c)].items) : heap[CopyOf(c)].items[j].src = i}
OutValue(c, j) == heap[CopyOf(c)].items[j].v
OutKey(c, j) == heap[CopyOf(c)].items[j].k

WholeToken(v) == v.t = "str" /\ Len(v.s) = 1 /\ IsSpan(v.s[1])
Bound(x) == x \in DOMAIN replacements
\* v is what resolving a whole token bound to r gives: r itself, or a result
\* of one of the invocations of r when r is callable
IsResolution(v, r) ==
    IF r.t = "fn"
    THEN \E n \in 0..(Count(calls, FnName(r)) - 1) : v = FnResult(FnName(r), n)
    ELSE v = r

----------------------------------------------------------------------------
(* C1: whole-token preservation.  When replace returns, every entry of the *)
(* template (a dict value or a list element) that is exactly one           *)
(* placeholder span with a bound identifier x holds, in the result, the    *)
(* value replacements[x] itself (same type, same object), or a result of   *)
(* invoking it when it is callable.  A list keeps the entry at its index;  *)
(* a dict that kept its size keeps the entry.                              *)
C1_WholeTokenPreserved ==
    pc = "returned" =>
        \A c \in TemplateCells : InResult(c) =>
            \A i \in Entries(c) :
                LET leaf == heap0[c].items[i].v IN
                (WholeToken(leaf) /\ Bound(leaf.s[1].x)) =>
                    /\ \A j \in OutItems(c, i) :
                           IsResolution(OutValue(c, j), replacements[leaf.s[1].x])
                    /\ heap0[c].t = "list" => OutItems(c, i) = {i}
                    /\ Len(heap[CopyOf(c)].items) = Len(heap0[c].items)
                           => OutItems(c, i) # {}

\* replace returned and a whole token bound to a list, a dict, an integer or
\* None holds that very value in the result
C1_Witness ==
    /\ pc = "returned"
    /\ \E c \in TemplateCells : \E i \in Entries(c) :
           LET leaf == heap0[c].items[i].v IN
           /\ InResult(c) /\ WholeToken(leaf) /\ Bound(leaf.s[1].x)
           /\ replacements[leaf.s[1].x].t \in {"ref", "None", "int"}
           /\ \E j \in OutItems(c, i) : OutValue(c, j) = replacements[leaf.s[1].x]

----------------------------------------------------------------------------
(* What the template holds *)

LeafAt(c, i) == heap0[c].items[i].v
KeyAt(c, i) == heap0[c].items[i].k
\* the identifiers of the placeholders of a string
Idents(v) == {StrOf(v)[n].x : n \in {q \in 1..Len(StrOf(v)) : IsSpan(StrOf(v)[q])}}
HasSpan(v) == Idents(v) # {}
\* a string with placeholders that is not a whole token
Partial(v) == HasSpan(v) /\ ~WholeToken(v)
\* the strings of the template: its leaves and its keys
TemplateStrings ==
    UNION {{LeafAt(c, i) : i \in Entries(c)} \cup {KeyAt(c, i) : i \in Entries(c)} :
           c \in TemplateCells}
\* the identifiers the template uses and the mapping does not bind
MissingIds == {x \in UNION {Idents(v) : v \in TemplateStrings} : ~Bound(x)}
\* the partial strings in which a bound placeholder maps to a non-string
PartialNonStr ==
    {v \in TemplateStrings :
        Partial(v) /\ \E x \in Idents(v) : Bound(x) /\ replacements[x].t # "str"}
\* r resolves to a dict, a list or None
BadKeyBinding(r) ==
    IF r.t = "fn" THEN FnResult(FnName(r), 0).t \in {"ref", "None"}
    ELSE r.t \in {"ref", "None"}
\* the identifiers of the whole-token keys that resolve to a dict, a list or None
BadKeyIds ==
    {x \in DOMAIN replacements :
        /\ BadKeyBinding(replacements[x])
        /\ \E c \in TemplateCells : \E i \in Entries(c) :
               WholeToken(KeyAt(c, i)) /\ KeyAt(c, i).s[1].x = x}

----------------------------------------------------------------------------
(* C2: partial-token concatenation.  A string leaf with placeholders that  *)
(* is not a whole token, all its identifiers bound, never makes replace    *)
(* fail with the TypeError of str.replace, whatever the types of the       *)
(* mapped values, and holds a string in the result.                        *)
C2_PartialConcatenation ==
    Done =>
        \A c \in TemplateCells : \A i \in Entries(c) :
            (Partial(LeafAt(c, i)) /\ \A x \in Idents(LeafAt(c, i)) : Bound(x)) =>
                /\ ~(exc.type = "TypeError" /\ exc.at = "get_replacement")
                /\ (pc = "returned" /\ InResult(c)) =>
                       \A j \in OutItems(c, i) : OutValue(c, j).t = "str"

----------------------------------------------------------------------------
(* C3: missing policy fail.  As claimed: with raise_on_missing true, a     *)
(* template that uses an unbound identifier makes replace fail with the    *)
(* KeyError naming an unbound identifier of the template.  (Stated for the *)
(* templates without a non-string value in a partial string, where the     *)
(* TypeError of str.replace cannot come first.)                            *)
C3_MissingAlwaysKeyError ==
    (Done /\ raise_on_missing /\ MissingIds # {} /\ PartialNonStr = {}) =>
        (pc = "raised" /\ exc.type = "KeyError" /\ exc.name \in MissingIds)

(* C3, amended: with raise_on_missing true, a template that uses an        *)
(* unbound identifier makes replace fail and return no tree; the failure   *)
(* is the KeyError naming an unbound identifier of the template, unless    *)
(* the TypeError of a key that resolves to a dict, a list or None, or the  *)
(* TypeError of a non-string value in a partial string, is raised first;   *)
(* without such a key and such a string it is that KeyError.  A KeyError   *)
(* is raised in no other case.                                             *)
C3_MissingFails ==
    /\ (Done /\ raise_on_missing /\ MissingIds # {}) =>
          /\ pc = "raised" /\ result = NoneV
          /\ exc.type \in {"KeyError", "TypeError"}
          /\ exc.type = "KeyError" => exc.name \in MissingIds
          /\ (exc.type = "TypeError" /\ exc.at = "replace_keys") => BadKeyIds # {}
          /\ (exc.type = "TypeError" /\ exc.at = "get_replacement") => PartialNonStr # {}
    /\ (Done /\ exc.type = "KeyError") => (raise_on_missing /\ exc.name \in MissingIds)

\* replace failed with the KeyError although the walk had already resolved
\* an entry of the copy
C3_Witness ==
    /\ pc = "raised" /\ exc.type = "KeyError" /\ raise_on_missing
    /\ exc.name \in MissingIds
    /\ heap[CopyOf(template.n)] # heap0[template.n]

----------------------------------------------------------------------------
(* C4: missing policy skip.  With raise_on_missing false replace never     *)
(* raises the KeyError, and in the tree it returns every string of the     *)
(* template (leaf or key) keeps its literal pieces and its unbound         *)
(* placeholders in place while each bound placeholder is replaced: by the  *)
(* mapped string exactly, when that string itself holds no bound           *)
(* placeholder.  A string without bound placeholder is unchanged.          *)

\* o is s with each bound placeholder replaced, everything else kept
RECURSIVE Spliced(_, _)
Spliced(s, o) ==
    IF s = <<>> THEN o = <<>>
    ELSE LET p == Head(s) IN
         IF ~IsSpan(p) \/ ~Bound(p.x)
         THEN o # <<>> /\ Head(o) = p /\ Spliced(Tail(s), Tail(o))
         ELSE LET r == replacements[p.x].s IN
              IF \A n \in 1..Len(r) : ~(IsSpan(r[n]) /\ Bound(r[n].x))
              THEN /\ Len(o) >= Len(r)
                   /\ SubSeq(o, 1, Len(r)) = r
                   /\ Spliced(Tail(s), SubSeq(o, Len(r) + 1, Len(o)))
              ELSE \E n \in 0..Len(o) : Spliced(Tail(s), SubSeq(o, n + 1, Len(o)))

\* o is what string v of the template became
Skipped(v, o) ==
    IF \A x \in Idents(v) : ~Bound(x) THEN o = v
    ELSE Partial(v) => (o.t = "str" /\ Spliced(v.s, o.s))

C4_MissingSkip ==
    /\ (Done /\ ~raise_on_missing) => exc.type # "KeyError"
    /\ (pc = "returned" /\ ~raise_on_missing) =>
          \A c \in TemplateCells : InResult(c) =>
              \A i \in Entries(c) : \A j \in OutItems(c, i) :
                  /\ LeafAt(c, i).t # "ref" => Skipped(LeafAt(c, i), OutValue(c, j))
                  /\ heap0[c].t = "dict" => Skipped(KeyAt(c, i), OutKey(c, j))

\* replace returned a string in which the unbound placeholder is kept and the
\* bound one replaced
C4_Witness ==
    /\ pc = "returned" /\ ~raise_on_missing
    /\ \E c \in TemplateCells : \E i \in Entries(c) : \E j \in OutItems(c, i) :
           /\ InResult(c)
           /\ \E x \in Idents(LeafAt(c, i)) : ~Bound(x)
           /\ \E x \in Idents(LeafAt(c, i)) : Bound(x)
           /\ OutValue(c, j) # LeafAt(c, i)
           /\ Spliced(LeafAt(c, i).s, OutValue(c, j).s)

----------------------------------------------------------------------------
(* C5: key type check.  As claimed: a whole-token key that resolves to a   *)
(* dict, a list or None makes replace fail with the TypeError of           *)
(* __replace_keys naming the identifier of such a key.  (Stated for the    *)
(* templates without a non-string value in a partial string, where the     *)
(* TypeError of str.replace cannot come first.)                            *)
C5_BadKeyAlwaysTypeError ==
    (Done /\ BadKeyIds # {} /\ PartialNonStr = {}) =>
        (pc = "raised" /\ exc.type = "TypeError" /\ exc.at = "replace_keys"
         /\ exc.name \in BadKeyIds)

\* the dicts of the returned tree that the walk built from the template
ResultDicts ==
    {c \in TemplateCells : InResult(c) /\ heap0[c].t = "dict"}

(* C5, amended: a whole-token key that resolves to a dict, a list or None  *)
(* makes replace fail and return no tree; the failure is the TypeError of  *)
(* __replace_keys naming the identifier of such a key, unless a KeyError   *)
(* (raise_on_missing true, an unbound identifier) or the TypeError of a    *)
(* non-string value in a partial string is raised first; without those it  *)
(* is that TypeError, which is raised in no other case.  Hence every key   *)
(* of a dict of a returned tree is a str, an int, a float or a bool.       *)
C5_KeyTypeCheck ==
    /\ (Done /\ BadKeyIds # {}) =>
          /\ pc = "raised" /\ result = NoneV
          /\ exc.type \in {"KeyError", "TypeError"}
          /\ exc.type = "KeyError" => (raise_on_missing /\ MissingIds # {})
          /\ (exc.type = "TypeError" /\ exc.at = "get_replacement") => PartialNonStr # {}
    /\ (Done /\ exc.type = "TypeError" /\ exc.at = "replace_keys") =>
          exc.name \in BadKeyIds
    /\ pc = "returned" =>
          \A c \in ResultDicts : \A j \in 1..Len(heap[CopyOf(c)].items) :
              OutKey(c, j).t \in {"str", "int", "float", "bool"}

\* replace failed with the TypeError of a key after it had resolved the
\* values of that dict
C5_Witness ==
    /\ pc = "raised" /\ exc = Exc("TypeError", "a", "replace_keys")
    /\ "a" \in BadKeyIds
    /\ \E c \in TemplateCells : heap[CopyOf(c)] # heap0[c]

----------------------------------------------------------------------------
(* C6: the caller's template is never mutated.  After any call of replace, *)
(* returned or failed, every dict and list of the template is the same     *)
(* object with the same content (keys, key order, elements, leaves) as     *)
(* before the call.                                                        *)
C6_TemplateNotMutated ==
    Done =>
        /\ \A c \in TemplateCells : heap[c] = heap0[c]
        /\ Deref(heap, template) = Deref(heap0, template)

\* replace failed in the middle of the walk, after it had written to the copy
C6_Witness ==
    /\ pc = "raised" /\ exc.type \in {"KeyError", "TypeError"}
    /\ heap[CopyOf(template.n)] # heap0[template.n]
    /\ Deref(heap, template) = Deref(heap0, template)

----------------------------------------------------------------------------
(* C7: no aliasing between input and output.  No dict or list reachable    *)
(* from the returned tree is a dict or list reachable from the template or *)
(* from a value of the replacement mapping.                                *)
ReplacementCells ==
    UNION {Reach(heap0, replacements[x]) : x \in DOMAIN replacements}

C7_NoAliasing ==
    pc = "returned" =>
        Reach(heap, result) \cap (TemplateCells \cup ReplacementCells) = {}

----------------------------------------------------------------------------
(* C8: callable one-shot per occurrence.  When replace returns, a callable *)
(* replacements[x] has been invoked as many times as x occurs as a whole   *)
(* token in the template (leaves and keys): never for an identifier that   *)
(* does not occur, and anew for each occurrence, so that the elements of a *)
(* list resolved from the counting callable differ.                        *)
WholeOccurrences(x) ==
    UNION {{<<c, i, "value">> : i \in {q \in Entries(c) :
                WholeToken(LeafAt(c, q)) /\ LeafAt(c, q).s[1].x = x}}
           \cup {<<c, i, "key">> : i \in {q \in Entries(c) :
                WholeToken(KeyAt(c, q)) /\ KeyAt(c, q).s[1].x = x}} :
           c \in TemplateCells}

C8_CallableOncePerOccurrence ==
    pc = "returned" =>
        \A x \in DOMAIN replacements :
            replacements[x].t = "fn" =>
                /\ Count(calls, FnName(replacements[x])) = Cardinality(WholeOccurrences(x))
                /\ FnName(replacements[x]) = "counter" =>
                       \A c \in TemplateCells : (InResult(c) /\ heap0[c].t = "list") =>
                           \A i, j \in Entries(c) :
                               (/\ i # j
                                /\ <<c, i, "value">> \in WholeOccurrences(x)
                                /\ <<c, j, "value">> \in WholeOccurrences(x))
                               => OutValue(c, i) # OutValue(c, j)

\* replace returned after invoking the counting callable for a key and for a
\* value
C8_Witness ==
    /\ pc = "returned"
    /\ "a" \in DOMAIN replacements /\ replacements["a"] = FnV("counter")
    /\ Count(calls, "counter") >= 2
    /\ \E c \in TemplateCells : \E i, j \in Entries(c) :
           <<c, i, "key">> \in WholeOccurrences("a")
           /\ <<c, j, "value">> \in WholeOccurrences("a")

----------------------------------------------------------------------------
(* C9: empty template.  replace raises the ValueError exactly when the     *)
(* root template is an empty dict or an empty list, whatever the mapping   *)
(* and the missing policy, and then nothing has been copied, written or    *)
(* invoked; a root with entries never raises it, also when a nested dict   *)
(* or list is empty.                                                       *)
C9_EmptyTemplate ==
    Done =>
        /\ exc.type = "ValueError" <=> heap0[template.n].items = <<>>
        /\ exc.type = "ValueError" => (pc = "raised" /\ calls = <<>> /\ heap = heap0)

\* the empty root was refused although the mapping binds a callable
C9_Witness ==
    /\ pc = "raised" /\ exc.type = "ValueError"
    /\ heap0[template.n].items = <<>>
    /\ \E x \in DOMAIN replacements : replacements[x].t = "fn"

----------------------------------------------------------------------------
(* C10: pattern configuration fails fast.  No call of replace on an engine *)
(* that was constructed fails because of the pattern: the IndexError of    *)
(* match.group(1) is never raised.                                         *)
C10_PatternFailsFast ==
    Done => ~(exc.type = "IndexError")

----------------------------------------------------------------------------
(* C11: value-before-key order.  Within one object every value (nested     *)
(* values included) is resolved before any key of the object, so the       *)
(* callables are invoked, over the whole walk, left to right and depth     *)
(* first with the values of an object before its keys: when replace        *)
(* returns, the sequence of invocations is the one that order gives.       *)

\* the callable a string of the template invokes when it is resolved
LeafCalls(v) ==
    IF WholeToken(v) /\ Bound(v.s[1].x) /\ replacements[v.s[1].x].t = "fn"
    THEN <<FnName(replacements[v.s[1].x])>>
    ELSE <<>>

RECURSIVE ValueFirstCalls(_)
RECURSIVE ValueFirstFrom(_, _)
RECURSIVE KeyCallsFrom(_, _)
\* the invocations for the keys of template cell c, from entry i on
KeyCallsFrom(c, i) ==
    IF i > Len(heap0[c].items) THEN <<>>
    ELSE LeafCalls(KeyAt(c, i)) \o KeyCallsFrom(c, i + 1)
\* the invocations for the values of template cell c, from entry i on
ValueFirstFrom(c, i) ==
    IF i > Len(heap0[c].items) THEN <<>>
    ELSE ValueFirstCalls(LeafAt(c, i)) \o ValueFirstFrom(c, i + 1)
\* the invocations the claimed order makes for template value v
ValueFirstCalls(v) ==
    IF v.t # "ref" THEN LeafCalls(v)
    ELSE IF heap0[v.n].t = "list" THEN ValueFirstFrom(v.n, 1)
    ELSE ValueFirstFrom(v.n, 1) \o KeyCallsFrom(v.n, 1)

C11_ValueBeforeKey ==
    pc = "returned" => calls = ValueFirstCalls(template)

----------------------------------------------------------------------------
(* C12: key order is preserved by key rewriting.  A rewritten key takes    *)
(* the position of the key it replaces: when replace returns, an object    *)
(* whose resolved keys are pairwise distinct has, entry by entry, the      *)
(* resolved form of the key the template has at that position.  (Stated    *)
(* for the keys whose placeholders are not bound to callables and for the  *)
(* objects that kept all their entries, where the form and the position    *)
(* of each key are not in doubt.)                                          *)

\* what resolving string v of the template gives, v itself when nothing is
\* replaced
ResolvedForm(v) ==
    LET got == GetReplacement(variable_regex, v, replacements, raise_on_missing) IN
    IF Raised(got.exc) \/ got.val = NoReplacement THEN v ELSE got.val

\* the resolved keys of template dict c are pairwise distinct
DistinctResolvedKeys(c) ==
    \A i, j \in Entries(c) :
        i # j => ~KeyEq(ResolvedForm(KeyAt(c, i)), ResolvedForm(KeyAt(c, j)))

C12_KeyOrderPreserved ==
    pc = "returned" =>
        \A c \in TemplateCells :
            (/\ heap0[c].t = "dict" /\ InResult(c)
             /\ \A i \in Entries(c) : ResolvedForm(KeyAt(c, i)).t # "fn"
             /\ DistinctResolvedKeys(c)
             /\ Len(heap[CopyOf(c)].items) = Len(heap0[c].items))
            => \A i \in Entries(c) : OutKey(c, i) = ResolvedForm(KeyAt(c, i))

----------------------------------------------------------------------------
(* C13: single-pass splicing.  When replace returns, a value of the        *)
(* template that is a partial or multi-token string holds the string made  *)
(* of its literal pieces and its unbound placeholders as they are, with    *)
(* each bound placeholder replaced by its own replacement string, left to  *)
(* right; what a replacement brings in is not substituted again.           *)

\* s with each bound placeholder replaced by its replacement, once
RECURSIVE SinglePass(_)
SinglePass(s) ==
    IF s = <<>> THEN <<>>
    ELSE (IF IsSpan(Head(s)) /\ Bound(Head(s).x)
          THEN StrOf(replacements[Head(s).x])
          ELSE <<Head(s)>>) \o SinglePass(Tail(s))

C13_SinglePassSplicing ==
    pc = "returned" =>
        \A c \in TemplateCells : InResult(c) =>
            \A i \in Entries(c) : \A j \in OutItems(c, i) :
                Partial(LeafAt(c, i)) =>
                    OutValue(c, j) = StrV(SinglePass(LeafAt(c, i).s))

----------------------------------------------------------------------------
(* C14: shape preservation.  For a template with entries and a mapping of  *)
(* identifiers to strings that binds every identifier the template uses,   *)
(* replace returns, and the tree it returns has the shape of the template: *)
(* every list and dict of the template has its copy in the result; a list  *)
(* keeps its length and each element its index; a dict whose resolved keys *)
(* are pairwise distinct keeps its number of entries, and what each entry  *)
(* resolves to sits under the resolved form of that entry's own key.       *)

\* entry j of the copy of c holds what the value of entry i of template
\* cell c resolves to: the copy of a nested list or dict, the resolved form
\* of a leaf
HoldsResolved(c, i, j) ==
    IF LeafAt(c, i).t = "ref"
    THEN OutValue(c, j) = RefV(CopyOf(LeafAt(c, i).n))
    ELSE OutValue(c, j) = ResolvedForm(LeafAt(c, i))

C14_ShapePreserved ==
    (/\ Done
     /\ heap0[template.n].items # <<>>
     /\ \A x \in DOMAIN replacements : replacements[x].t = "str"
     /\ MissingIds = {})
    => /\ pc = "returned"
       /\ \A c \in TemplateCells :
              /\ InResult(c)
              /\ heap0[c].t = "list" =>
                     /\ Len(heap[CopyOf(c)].items) = Len(heap0[c].items)
                     /\ \A i \in Entries(c) : HoldsResolved(c, i, i)
              /\ (heap0[c].t = "dict" /\ DistinctResolvedKeys(c)) =>
                     /\ Len(heap[CopyOf(c)].items) = Len(heap0[c].items)
                     /\ \A i \in Entries(c) : \E j \in 1..Len(heap[CopyOf(c)].items) :
                            /\ OutKey(c, j) = ResolvedForm(KeyAt(c, i))
                            /\ HoldsResolved(c, i, j)

====
